---- MODULE Spec2Model ----
(***************************************************************************)
(* Model of app.py: the memoized CSV loader load_data (st.cache_data), the  *)
(* module-level binding df = load_data(), and the "Dataset Overview" block  *)
(* of the Data Prep/EDA tab that computes and displays the four metrics.    *)
(*                                                                         *)
(* A context is one Streamlit script run thread (one browser session); all *)
(* contexts of the process share the st.cache_data entry of load_data, its  *)
(* compute lock and the file system.  Every rerun of a session executes    *)
(* the script from the top.                                                 *)
(*                                                                         *)
(* Numbers are fixed point.  A parsed cell is an integer count of tenths;  *)
(* a displayed value is an integer count of 10^-dec.                        *)
(***************************************************************************)
EXTENDS Integers, Sequences, FiniteSets, TLC

\* ---------------------------------------------------------------- bounds
NumCtx == 2        \* concurrent script-run contexts
MaxCalls == 3      \* script runs (calls of load_data) in the process lifetime
MaxRows == 3       \* data rows of a generated CSV file

Ctx == 1..NumCtx

\* ------------------------------------------------------------ CSV content
\* Text of a cell as it stands in the file.
UsageTexts == {"2.0", "3.0", "5.0", "4.5", "abc"}
ScoreTexts == {"6", "10", "14"}
BullyTexts == {"Yes", "No", "yes"}

\* The cell texts the parser accepts as numbers, with their value in tenths.
NumericTexts == {"2.0", "3.0", "5.0", "4.5", "6", "10", "14"}

IsNumeric(s) == s \in NumericTexts

ParseTenths(s) ==
    CASE s = "2.0" -> 20
      [] s = "3.0" -> 30
      [] s = "5.0" -> 50
      [] s = "4.5" -> 45
      [] s = "6"   -> 60
      [] s = "10"  -> 100
      [] s = "14"  -> 140
      [] OTHER     -> 0

Row(u, d, c) ==
    [daily_usage_hours |-> u, depression_score |-> d, cyberbullying_experienced |-> c]

\* The rows of the worked example: (3.0,10,Yes), (5.0,14,No), (2.0,6,Yes).
ExampleRows ==
    << Row("3.0", "10", "Yes"), Row("5.0", "14", "No"), Row("2.0", "6", "Yes") >>

\* ------------------------------------------------------------ file system
Absent == [kind |-> "absent", rows |-> << >>]
Malformed == [kind |-> "malformed", rows |-> << >>]
Csv(rows) == [kind |-> "csv", rows |-> rows]

\* Fault variant: the existence check always succeeds.
FileExistsAlways(f) == TRUE

\* os.path.exists(path)
FileExists(f) == f.kind # "absent"

\* ---------------------------------------------------------------- values
\* A Python value bound to df: None, a DataFrame object (identity id), or
\* not yet bound.
Unbound == [kind |-> "unbound", id |-> 0, rows |-> << >>]
None == [kind |-> "None", id |-> 0, rows |-> << >>]
DataFrame(i, rows) == [kind |-> "df", id |-> i, rows |-> rows]

Column(rows, name) == [i \in 1..Len(rows) |-> rows[i][name]]

\* dtype pandas infers for a column: numeric when every cell parses, object
\* otherwise and for a column with no cells.
Dtype(cells) ==
    IF Len(cells) > 0 /\ \A i \in 1..Len(cells) : IsNumeric(cells[i])
    THEN "float64" ELSE "object"

\* Fault variant: a failed read is swallowed and None returned.
read_csv_lenient(f, i) ==
    IF f.kind = "csv"
    THEN [ok |-> TRUE, val |-> DataFrame(i, f.rows)]
    ELSE [ok |-> TRUE, val |-> None]

\* Fault variant: a file without data rows is reported as no data.
read_csv_empty_none(f, i) ==
    IF f.kind = "csv"
    THEN [ok |-> TRUE, val |-> IF Len(f.rows) = 0 THEN None ELSE DataFrame(i, f.rows)]
    ELSE [ok |-> FALSE, val |-> Unbound]

\* Fault variant: a file that is gone at the read is reported as no data.
read_csv_missing_none(f, i) ==
    IF f.kind = "csv"
    THEN [ok |-> TRUE, val |-> DataFrame(i, f.rows)]
    ELSE IF f.kind = "absent"
         THEN [ok |-> TRUE, val |-> None]
         ELSE [ok |-> FALSE, val |-> Unbound]

\* pd.read_csv(path): a DataFrame object with identity i holding the file's
\* rows; raises (ok = FALSE) when the file is gone or cannot be parsed.
read_csv(f, i) ==
    IF f.kind = "csv"
    THEN [ok |-> TRUE, val |-> DataFrame(i, f.rows)]
    ELSE [ok |-> FALSE, val |-> Unbound]

\* ------------------------------------------------------- st.cache_data
\* The single cache entry of load_data (it takes no arguments).  The data
\* cache stores the pickled return value, which carries no object identity.
NoEntry == [kind |-> "empty", rows |-> << >>]

Pickle(v) == [kind |-> v.kind, rows |-> v.rows]

\* Fault variant: a hit hands out the one stored object (a resource cache).
SharedObject(p, i) == IF p.kind = "df" THEN 1 ELSE 0

\* Identity of the object a cache hit hands out: a hit unpickles the stored
\* bytes into a new object.
HitObjectId(p, i) == IF p.kind = "df" THEN i ELSE 0

Unpickle(p, i) == [kind |-> p.kind, id |-> HitObjectId(p, i), rows |-> p.rows]

\* Fault variant: the entry is never found.
CacheNeverHits(c) == FALSE

CacheHit(c) == c.kind # "empty"

\* Fault variant: the compute lock excludes nobody.
LockAlwaysFree(l) == TRUE

LockFree(l) == l = 0

\* ---------------------------------------------------------------- metrics
RECURSIVE SumTenths(_)
SumTenths(cells) ==
    IF Len(cells) = 0 THEN 0
    ELSE ParseTenths(Head(cells)) + SumTenths(Tail(cells))

\* Fault variant: non-numeric cells count as zero.
MeanCoerceZero(cells) ==
    IF Len(cells) = 0
    THEN [status |-> "nan", num |-> 0, den |-> 1]
    ELSE [status |-> "ok", num |-> SumTenths(cells), den |-> Len(cells)]

\* Series.mean(): NaN for a column with no cells, TypeError for an object
\* column holding text, otherwise sum / count (num tenths over den).
Mean(cells) ==
    IF Len(cells) = 0
    THEN [status |-> "nan", num |-> 0, den |-> 1]
    ELSE IF Dtype(cells) = "object"
         THEN [status |-> "raise", num |-> 0, den |-> 1]
         ELSE [status |-> "ok", num |-> SumTenths(cells), den |-> Len(cells)]

\* (column == 'Yes').sum()
IsYes(s) == s = "Yes"

CountYes(cells) == Cardinality({i \in 1..Len(cells) : IsYes(cells[i])})

\* Fault variant: the digits are cut off instead of rounded.
RoundDown(a, b) == a \div b

\* Fixed-point formatting f"{x:.Nf}" of a / b (a >= 0, b > 0): the nearest
\* multiple of the last decimal, ties to even.
RoundHalfEven(a, b) ==
    LET q == a \div b
        r == a % b
    IN  IF 2 * r > b THEN q + 1
        ELSE IF 2 * r < b THEN q
        ELSE IF q % 2 = 0 THEN q ELSE q + 1

\* One element the script has put on the page.
Element(label) == [label |-> label, nan |-> FALSE, val |-> 0, dec |-> 0]
Metric(label, val, dec) == [label |-> label, nan |-> FALSE, val |-> val, dec |-> dec]
MetricNaN(label, dec) == [label |-> label, nan |-> TRUE, val |-> 0, dec |-> dec]

\* st.metric("Total Users", f"{len(df):,}")
TotalUsers(v) == Metric("Total Users", Len(v.rows), 0)

\* st.metric("Average Daily Usage", f"{df['daily_usage_hours'].mean():.2f} hours")
UsageMean(v) == Mean(Column(v.rows, "daily_usage_hours"))
AvgDailyUsage(v) ==
    LET m == UsageMean(v)
    IN  IF m.status = "nan" THEN MetricNaN("Average Daily Usage", 2)
        ELSE Metric("Average Daily Usage", RoundHalfEven(m.num * 10, m.den), 2)

\* st.metric("Average Depression Score", f"{df['depression_score'].mean():.1f}/27")
ScoreMean(v) == Mean(Column(v.rows, "depression_score"))
AvgDepressionScore(v) ==
    LET m == ScoreMean(v)
    IN  IF m.status = "nan" THEN MetricNaN("Average Depression Score", 1)
        ELSE Metric("Average Depression Score", RoundHalfEven(m.num, m.den), 1)

\* st.metric("Cyberbullying Rate",
\*   f"{(df['cyberbullying_experienced']=='Yes').sum()/len(df)*100:.1f}%")
\* numpy integer division by zero yields NaN, not an exception.
CyberbullyingRate(v) ==
    LET n == Len(v.rows)
        k == CountYes(Column(v.rows, "cyberbullying_experienced"))
    IN  IF n = 0 THEN MetricNaN("Cyberbullying Rate", 1)
        ELSE Metric("Cyberbullying Rate", RoundHalfEven(k * 1000, n), 1)

\* Fault variant: the overview block is entered whatever df is.
SkipNever(v) == FALSE

\* if df is not None:
IsNone(v) == v.kind = "None"

\* df.head(10)
HeadRows == 10
Head10(v) == Metric("View Dataset Sample",
                    IF Len(v.rows) < HeadRows THEN Len(v.rows) ELSE HeadRows, 0)

\* --------------------------------------------------------------- the page
\* Lines 48-452 for a run whose df is v: the elements put on the page, in
\* order, and whether the run finished or stopped at an uncaught exception.
IntroPart == << Element("Introduction"), Element("Data Prep/EDA") >>

RestPart == << Element("Visualizations"), Element("Model Tabs"), Element("Footer") >>

Stopped(elems) == [shown |-> elems, pc |-> "error"]

Finished(elems) == [shown |-> elems, pc |-> "done"]

Page(v) ==
    IF IsNone(v)
    THEN Finished(IntroPart \o RestPart)
    ELSE LET upto1 == IntroPart \o << Element("Dataset Overview"), TotalUsers(v) >>
         IN  IF UsageMean(v).status = "raise" THEN Stopped(upto1)
             ELSE LET upto2 == Append(upto1, AvgDailyUsage(v))
                  IN  IF ScoreMean(v).status = "raise" THEN Stopped(upto2)
                      ELSE Finished(upto2
                                    \o << AvgDepressionScore(v), CyberbullyingRate(v),
                                          Head10(v), Element("View Statistical Summary") >>
                                    \o RestPart)

\* ------------------------------------------------------------------ state
VARIABLES
    file,      \* data/cleaned/merged_social_mental_health.csv
    cache,     \* the st.cache_data entry of load_data
    lock,      \* holder of the entry's compute lock, 0 when free
    calls,     \* script runs started so far
    pc,        \* position of each context in the script
    df,        \* the module-level name df of each run
    shown,     \* elements each run has put on the page, in order
    body,      \* what the body of load_data did in the context's current call:
               \* the outcome of its existence check, of its read, and the
               \* exception that left it
    blocked,   \* the context missed and found the compute lock held, and the
               \* cache has not been invalidated since
    fresh,     \* df was bound after the last cache invalidation
    nreads,    \* pd.read_csv calls since the last invalidation
    stores     \* results written to the cache since the last invalidation

vars == << file, cache, lock, calls, pc, df, shown, body, blocked, fresh,
           nreads, stores >>

NoBody == [exists |-> "unchecked", read |-> "none", exc |-> "none"]

\* Files of the shared specification.
FileStates ==
    { Absent, Malformed, Csv(<< >>), Csv(ExampleRows) }

\* Rows of the generated files of the metrics specification.
RowSet ==
    { Row("3.0", "10", "Yes"), Row("5.0", "14", "No"), Row("2.0", "6", "Yes"),
      Row("4.5", "6", "yes"), Row("2.0", "14", "No"), Row("abc", "10", "No") }

RowSeqs == UNION { [1..n -> RowSet] : n \in 0..MaxRows }

MetricFiles == { Absent, Malformed } \cup { Csv(r) : r \in RowSeqs }

InitRest ==
    /\ cache = NoEntry
    /\ lock = 0
    /\ calls = 0
    /\ pc = [t \in Ctx |-> "idle"]
    /\ df = [t \in Ctx |-> Unbound]
    /\ shown = [t \in Ctx |-> << >>]
    /\ body = [t \in Ctx |-> NoBody]
    /\ blocked = [t \in Ctx |-> FALSE]
    /\ fresh = [t \in Ctx |-> FALSE]
    /\ nreads = 0
    /\ stores = 0

Init == file \in FileStates /\ InitRest

InitMetrics == file \in MetricFiles /\ InitRest

\* ------------------------------------------------------------- load_data
\* Identity of a newly created object: one no live df refers to.
NewId == CHOOSE i \in 1..(NumCtx + 1) :
            /\ \A t \in Ctx : df[t].id # i
            /\ \A j \in 1..(i - 1) : \E t \in Ctx : df[t].id = j

\* load_data returns v to context t:  df = load_data()
Bind(t, v) ==
    /\ df' = [df EXCEPT ![t] = v]
    /\ fresh' = [fresh EXCEPT ![t] = TRUE]
    /\ pc' = [pc EXCEPT ![t] = "render"]

\* A script run starts (lines 1-46) and calls the cached function: a hit
\* returns a copy of the entry, a miss goes on to take the compute lock.
CallLoadData(t) ==
    /\ pc[t] \in {"idle", "done", "error"}
    /\ calls < MaxCalls
    /\ calls' = calls + 1
    /\ shown' = [shown EXCEPT ![t] = << >>]
    /\ body' = [body EXCEPT ![t] = NoBody]
    /\ IF CacheHit(cache)
       THEN /\ df' = [df EXCEPT ![t] = Unpickle(cache, NewId)]
            /\ fresh' = [fresh EXCEPT ![t] = TRUE]
            /\ pc' = [pc EXCEPT ![t] = "render"]
            /\ blocked' = [blocked EXCEPT ![t] = FALSE]
       ELSE /\ df' = [df EXCEPT ![t] = Unbound]
            /\ fresh' = [fresh EXCEPT ![t] = FALSE]
            /\ pc' = [pc EXCEPT ![t] = "lock"]
            /\ blocked' = [blocked EXCEPT ![t] = (lock # 0)]
    /\ UNCHANGED << file, cache, lock, nreads, stores >>

\* The lock is taken and the entry looked up again: a hit returns a copy and
\* releases the lock, a miss enters the body of load_data.
AcquireLock(t) ==
    /\ pc[t] = "lock"
    /\ LockFree(lock)
    /\ IF CacheHit(cache)
       THEN Bind(t, Unpickle(cache, NewId)) /\ UNCHANGED lock
       ELSE /\ lock' = t
            /\ pc' = [pc EXCEPT ![t] = "exists"]
            /\ UNCHANGED << df, fresh >>
    /\ UNCHANGED << file, cache, calls, shown, body, blocked, nreads, stores >>

\* if os.path.exists(...):  else  return None  (stored, lock released)
ExistsCheck(t) ==
    /\ pc[t] = "exists"
    /\ IF FileExists(file)
       THEN /\ pc' = [pc EXCEPT ![t] = "read"]
            /\ body' = [body EXCEPT ![t].exists = "present"]
            /\ UNCHANGED << cache, lock, df, fresh, stores >>
       ELSE /\ body' = [body EXCEPT ![t].exists = "absent"]
            /\ cache' = Pickle(None)
            /\ stores' = stores + 1
            /\ lock' = 0
            /\ Bind(t, None)
    /\ UNCHANGED << file, calls, shown, blocked, nreads >>

\* return pd.read_csv(...): the value is stored and returned, or the
\* exception leaves the call, the lock is released and nothing is stored.
ReadCsv(t) ==
    /\ pc[t] = "read"
    /\ LET r == read_csv(file, NewId)
       IN  IF r.ok
           THEN /\ body' = [body EXCEPT ![t].read = "parsed"]
                /\ cache' = Pickle(r.val)
                /\ stores' = stores + 1
                /\ Bind(t, r.val)
           ELSE /\ body' = [body EXCEPT ![t].read = "raised",
                                         ![t].exc = IF file = Absent
                                                    THEN "FileNotFoundError"
                                                    ELSE "ParserError"]
                /\ pc' = [pc EXCEPT ![t] = "error"]
                /\ UNCHANGED << cache, stores, df, fresh >>
    /\ nreads' = nreads + 1
    /\ lock' = 0
    /\ UNCHANGED << file, calls, shown, blocked >>

\* ------------------------------------------------------------ the script
\* Fault variant: the overview block drops a row of df in place.
RenderPageInPlace(t) ==
    /\ pc[t] = "render"
    /\ shown' = [shown EXCEPT ![t] = Page(df[t]).shown]
    /\ pc' = [pc EXCEPT ![t] = Page(df[t]).pc]
    /\ df' = [df EXCEPT ![t].rows = IF Len(@) = 0 THEN @ ELSE Tail(@)]
    /\ UNCHANGED << file, cache, lock, calls, body, blocked, fresh, nreads, stores >>

\* Lines 48-452: the tabs, the Dataset Overview block and the footer.
RenderPage(t) ==
    /\ pc[t] = "render"
    /\ shown' = [shown EXCEPT ![t] = Page(df[t]).shown]
    /\ pc' = [pc EXCEPT ![t] = Page(df[t]).pc]
    /\ UNCHANGED << file, cache, lock, calls, df, body, blocked, fresh, nreads, stores >>

\* ------------------------------------------------------------ environment
\* The file is created, replaced or removed outside the program.
FileChange ==
    /\ \E f \in FileStates \ {file} : file' = f
    /\ UNCHANGED << cache, lock, calls, pc, df, shown, body, blocked, fresh,
                    nreads, stores >>

\* Explicit invalidation: load_data.clear() / "Clear cache".
ClearCache ==
    /\ cache # NoEntry \/ stores # 0 \/ nreads # 0 \/ \E t \in Ctx : fresh[t]
    /\ cache' = NoEntry
    /\ stores' = 0
    /\ nreads' = 0
    /\ fresh' = [t \in Ctx |-> FALSE]
    /\ blocked' = [t \in Ctx |-> FALSE]
    /\ UNCHANGED << file, lock, calls, pc, df, shown, body >>

Step(t) ==
    \/ CallLoadData(t)
    \/ AcquireLock(t)
    \/ ExistsCheck(t)
    \/ ReadCsv(t)
    \/ RenderPage(t)

Next == (\E t \in Ctx : Step(t)) \/ FileChange \/ ClearCache

Spec == Init /\ [][Next]_vars

\* One session over every generated file, the file left alone.
NextMetrics == Step(1)

SpecMetrics == InitMetrics /\ [][NextMetrics]_vars

\* ------------------------------------------------------------------ claims
InBody(t) == pc[t] \in {"exists", "read"}

Bound(t) == df[t].kind # "unbound"

\* C1 as stated: with no cache invalidation in between, the file is read and
\* parsed at most once, however many calls of load_data there are.
C1_ReadAtMostOnce == nreads <= 1

\* C1, amended: with no cache invalidation in between, at most one call
\* computes and stores a result (dataset or sentinel), and while a result is
\* cached no call is checking or reading the file, whatever the file is now.
C1_ComputedAtMostOnce ==
    /\ stores <= 1
    /\ cache # NoEntry => \A t \in Ctx : ~InBody(t)

\* A rerun was served the cached dataset although the file is gone.
C1_Witness ==
    \E t \in Ctx :
        /\ pc[t] = "done" /\ fresh[t] /\ body[t] = NoBody
        /\ df[t].kind = "df" /\ file = Absent /\ stores = 1 /\ nreads = 1

C3_AbsentGivesNone ==
    [][\A t \in Ctx :
          pc[t] = "exists" /\ pc'[t] # "exists" /\ file = Absent
              => /\ pc'[t] = "render"
                 /\ df'[t] = None
                 /\ nreads' = nreads
                 /\ body'[t].read = "none"]_vars

\* A run that found no file finished with df = None.
C3_Witness ==
    \E t \in Ctx :
        body[t].exists = "absent" /\ pc[t] = "done" /\ df[t] = None /\ nreads = 0

\* C4: a file that exists and cannot be parsed makes the call raise: nothing
\* is returned or stored, and a call that got as far as read_csv never
\* returns None.
C4_ParseErrorPropagates ==
    [][\A t \in Ctx :
          pc[t] = "read" /\ pc'[t] # "read"
              => /\ df'[t] # None
                 /\ file = Malformed
                       => pc'[t] = "error" /\ df'[t] = Unbound /\ cache' = cache]_vars

\* A run stopped at the parse error of an existing file, nothing stored.
C4_Witness ==
    \E t \in Ctx :
        /\ body[t].exists = "present" /\ body[t].read = "raised"
        /\ pc[t] = "error" /\ file = Malformed /\ cache = NoEntry

\* C7: a run whose df is None computes and shows none of the four metrics,
\* the sample or the summary, renders every other section and finishes.
C7_NoneSkipsOverview ==
    \A t \in Ctx :
        df[t].kind = "None" /\ pc[t] \notin {"render"}
            => /\ pc[t] = "done"
               /\ shown[t] = IntroPart \o RestPart

\* A run finished with df = None.
C7_Witness ==
    \E t \in Ctx : df[t].kind = "None" /\ pc[t] = "done" /\ Len(shown[t]) > 0

\* C8 as stated: of the contexts that call with an empty cache, one runs the
\* body; every context that had to wait for the lock then gets the cached
\* result and never checks or reads the file itself.
C8_WaitersNeverRead ==
    \A t \in Ctx : blocked[t] => ~InBody(t) /\ body[t] = NoBody

\* C8, amended: at most one context at a time is in the body, holding the
\* lock, and only while no result has been stored; so a context that waited
\* runs the body itself only when the holder stored nothing.
C8_OneInBody ==
    \A t \in Ctx :
        InBody(t) => /\ lock = t
                     /\ stores = 0
                     /\ \A u \in Ctx \ {t} : ~InBody(u)

\* A context that waited for the lock was handed the cached dataset.
C8_Witness ==
    \E t \in Ctx :
        blocked[t] /\ fresh[t] /\ df[t].kind = "df" /\ body[t] = NoBody

\* ------------------------------------------ claims about the metrics block
Labels(sh) == { sh[i].label : i \in 1..Len(sh) }

Shown(t, label) == CHOOSE e \in { shown[t][i] : i \in 1..Len(shown[t]) } : e.label = label

AggregateLabels ==
    { "Average Daily Usage", "Average Depression Score", "Cyberbullying Rate" }

Ended(t) == pc[t] \in {"done", "error"}

ZeroRows(v) == v.kind = "df" /\ Len(v.rows) = 0

\* C5: for a dataset with zero rows the metrics computation fails, and no
\* mean or rate (0, NaN or anything else) is put on the page.
C5_ZeroRowsFails ==
    \A t \in Ctx :
        ZeroRows(df[t]) /\ Ended(t)
            => pc[t] = "error" /\ Labels(shown[t]) \cap AggregateLabels = {}

HasTextUsage(rows) ==
    \E i \in 1..Len(rows) : rows[i].daily_usage_hours \notin NumericTexts

TextUsageFile == file.kind = "csv" /\ HasTextUsage(file.rows)

RECURSIVE TenthsOf(_, _)
TenthsOf(rows, name) ==
    IF Len(rows) = 0 THEN 0
    ELSE ParseTenths(Head(rows)[name]) + TenthsOf(Tail(rows), name)

\* v units of 1/scale are a / b rounded to the nearest unit.
Nearest(v, a, b, scale) ==
    LET d == v * b - a * scale IN 2 * (IF d < 0 THEN -d ELSE d) <= b

\* C9: a finished run over a dataset of n >= 1 rows shows total_users = n,
\* avg_daily_usage = sum(daily_usage_hours) / n to two decimals,
\* avg_depression_score = sum(depression_score) / n to one decimal and
\* cyberbullying_rate = 100 * #{rows with exactly "Yes"} / n to one decimal;
\* for the rows (3.0,10,Yes), (5.0,14,No), (2.0,6,Yes): 3, 3.33, 10.0, 66.7.
C9_MetricsValues ==
    \A t \in Ctx :
        pc[t] = "done" /\ df[t].kind = "df" /\ Len(df[t].rows) >= 1
            => LET rows == df[t].rows
                   n == Len(rows)
                   yes == Cardinality({ i \in 1..n :
                              rows[i].cyberbullying_experienced = "Yes" })
                   total == Shown(t, "Total Users")
                   usage == Shown(t, "Average Daily Usage")
                   score == Shown(t, "Average Depression Score")
                   rate == Shown(t, "Cyberbullying Rate")
               IN  /\ { "Total Users" } \cup AggregateLabels \subseteq Labels(shown[t])
                   /\ ~total.nan /\ total.dec = 0 /\ total.val = n
                   /\ ~usage.nan /\ usage.dec = 2
                   /\ Nearest(usage.val, TenthsOf(rows, "daily_usage_hours"), 10 * n, 100)
                   /\ ~score.nan /\ score.dec = 1
                   /\ Nearest(score.val, TenthsOf(rows, "depression_score"), 10 * n, 10)
                   /\ ~rate.nan /\ rate.dec = 1
                   /\ Nearest(rate.val, 100 * yes, n, 10)
                   /\ rows = ExampleRows
                         => /\ total.val = 3 /\ usage.val = 333
                            /\ score.val = 100 /\ rate.val = 667

\* A run over the example rows finished and shows 66.7 %.
C9_Witness ==
    \E t \in Ctx :
        /\ pc[t] = "done" /\ df[t].kind = "df" /\ df[t].rows = ExampleRows
        /\ Shown(t, "Cyberbullying Rate").val = 667

\* C10: for an existing file with a header and no data rows load_data returns
\* a dataset of length 0 and never None, for an absent file it returns None,
\* and the run tells them apart: only the former enters the overview block
\* (Total Users 0).
C10_EmptyIsNotAbsent ==
    \A t \in Ctx :
        /\ file = Csv(<< >>) /\ pc[t] \in {"render", "done", "error"}
              => /\ df[t].kind = "df" /\ Len(df[t].rows) = 0 /\ df[t] # None
                 /\ Ended(t) => /\ "Total Users" \in Labels(shown[t])
                                /\ Shown(t, "Total Users").val = 0
        /\ file = Absent /\ pc[t] \in {"render", "done", "error"}
              => /\ df[t] = None
                 /\ Ended(t) => "Total Users" \notin Labels(shown[t])

\* A run over a header-only file finished with a dataset of length 0.
C10_Witness ==
    /\ file = Csv(<< >>)
    /\ \E t \in Ctx : pc[t] = "done" /\ df[t].kind = "df" /\ Len(df[t].rows) = 0

\* ------------------------------------------- claims about frame conditions
\* C11: once bound, df of a run is left alone by every step of the script
\* (it changes only when a new run starts and binds its own df); rendering
\* the page changes neither df nor the cache; and a cached value is replaced
\* by nothing but an explicit invalidation, which empties the entry and is
\* no step of any run.
C11_DatasetNeverChanged ==
    [][\A t \in Ctx :
          /\ Bound(t) /\ df'[t] # df[t]
                => /\ pc[t] \in {"done", "error"}
                   /\ pc'[t] \in {"render", "lock"}
                   /\ calls' = calls + 1
          /\ pc[t] = "render" /\ pc'[t] # "render"
                => df' = df /\ cache' = cache
          /\ cache # NoEntry /\ cache' # cache
                => /\ cache' = NoEntry
                   /\ stores' = 0
                   /\ pc' = pc /\ df' = df /\ calls' = calls]_vars

\* A run showed all metrics of the cached dataset and still holds it as
\* loaded, while the file has since become something else.
C11_Witness ==
    \E t \in Ctx :
        /\ pc[t] = "done" /\ df[t].kind = "df" /\ df[t].rows = ExampleRows
        /\ "Cyberbullying Rate" \in Labels(shown[t])
        /\ cache = Pickle(df[t]) /\ file # Csv(df[t].rows)

\* C12: the existence check and the read of load_data are two steps.  The
\* body returns None only from its own existence check finding no file; when
\* the file is removed after the check succeeded, the read raises to the
\* caller: df stays unbound, the run stops, and nothing is stored in the cache.
C12_RemovedBeforeRead ==
    [][\A t \in Ctx :
          /\ InBody(t) /\ df'[t] = None
                => pc[t] = "exists" /\ file = Absent
          /\ pc[t] = "exists" /\ pc'[t] = "read"
                => file # Absent /\ df'[t] = Unbound /\ cache' = cache
          /\ pc[t] = "read" /\ pc'[t] # "read" /\ file = Absent
                => /\ pc'[t] = "error"
                   /\ df'[t] = Unbound
                   /\ cache' = cache /\ cache = NoEntry
                   /\ stores' = stores
                   /\ lock' = 0]_vars

\* A call passed the existence check, the file was removed, and the read
\* raised with nothing cached.
C12_Witness ==
    \E t \in Ctx :
        /\ body[t].exists = "present" /\ body[t].exc = "FileNotFoundError"
        /\ pc[t] = "error" /\ df[t] = Unbound /\ cache = NoEntry /\ lock = 0

====
